---- MODULE Spec2Model ----
(***************************************************************************)
(* Client side of the Dynamips device-control protocol of gns3-gui:        *)
(*   - FrameRelaySwitch (gns3/modules/dynamips/nodes/frame_relay_switch.py)*)
(*     a proxy of one remote Frame-Relay switch: it sends asynchronous     *)
(*     messages to a server and reconciles the replies in callbacks;       *)
(*   - Dynamips (gns3/modules/dynamips/__init__.py), the module that owns  *)
(*     the family settings, the server list and the node factory.          *)
(*                                                                         *)
(* Python strings that the code takes apart (split(":"), int()) are        *)
(* sequences of one-character strings; a Python dict is a sequence of      *)
(* <<key, value>> pairs with unique keys, in insertion order.              *)
(***************************************************************************)
EXTENDS Integers, Sequences, FiniteSets, TLC

VARIABLES
    node,       \* the FrameRelaySwitch object: _frsw_id, _settings, _ports
    log,        \* what happened at the node, in order: signals emitted,
                \* messages sent, exceptions raised out of a method,
                \* lines printed, replies handed to a callback, the calls
                \* of update, addNIO and deleteNIO, the returns of update
    pending,    \* indices in log of the sent messages still awaiting a reply
    budget,     \* how many more method calls the node's callers make
    settings,   \* Dynamips._settings
    store,      \* QSettings group "Dynamips": the persisted settings
    servers,    \* Dynamips._servers (a Python list)
    connected,  \* the local server's "connected" attribute
    call,       \* the last Dynamips method called: inputs, pre-state, outcome
    notified,   \* the notifications that call sent, in order
    removed,    \* servers removed by removeServer and not added since
    received,   \* per server, what the settings notifications it was sent
                \* since addServer last added it amount to, merged in order
    twins,      \* two FrameRelaySwitch objects created on one server
    wire,       \* the messages the twins sent on that server's connection,
                \* in order, each with the bound method given as callback
    deliveries, \* the replies the connection handed to callbacks, in order
    ios_images, \* Dynamips._ios_images (a Python dict)
    image_store \* QSettings group "IOS_images": the persisted catalog

nodeVars == <<node, log, pending, budget>>
moduleVars ==
    <<settings, store, servers, connected, call, notified, removed, received>>
pairVars == <<twins, wire, deliveries>>
catalogVars == <<ios_images, image_store>>
vars == <<node, log, pending, budget, settings, store, servers, connected,
          call, notified, removed, received, twins, wire, deliveries,
          ios_images,
          image_store>>

None == "None"

(***************************************************************************)
(* Bounds of the model.                                                    *)
(***************************************************************************)
\* method calls on one node in a run of its life cycle
MaxCalls == 3
\* method calls on one node in a run that reconfigures its ports
MaxPortCalls == 3
\* length the module's server list may reach
MaxServers == 3
\* setup calls on the two nodes that share a server connection
MaxTwinCalls == 3
\* entries of an image catalog passed to setIOSImages
MaxImages == 2

(***************************************************************************)
(* Python string and dict primitives.                                      *)
(***************************************************************************)
Min(S) == CHOOSE x \in S : \A y \in S : x <= y

\* s.split(":")[0]
SplitHead(s) ==
    LET colons == {i \in 1..Len(s) : s[i] = ":"}
    IN  IF colons = {} THEN s ELSE SubSeq(s, 1, Min(colons) - 1)

DigitValue(c) ==
    CASE c = "0" -> 0 [] c = "1" -> 1 [] c = "2" -> 2 [] c = "3" -> 3
      [] c = "4" -> 4 [] c = "5" -> 5 [] c = "6" -> 6 [] c = "7" -> 7
      [] c = "8" -> 8 [] c = "9" -> 9

\* int(s) for a string of decimal digits
RECURSIVE ToInt(_)
ToInt(s) ==
    IF Len(s) = 0 THEN 0
    ELSE 10 * ToInt(SubSeq(s, 1, Len(s) - 1)) + DigitValue(s[Len(s)])

SeqToSet(s) == {s[i] : i \in 1..Len(s)}

\* d[k] = v
DictSet(d, k, v) ==
    IF \E i \in 1..Len(d) : d[i][1] = k
    THEN [i \in 1..Len(d) |-> IF d[i][1] = k THEN <<k, v>> ELSE d[i]]
    ELSE Append(d, <<k, v>>)

\* list.remove(x): the list without the first occurrence of x
ListRemove(l, x) ==
    LET at == Min({i \in 1..Len(l) : l[i] = x})
    IN  SubSeq(l, 1, at - 1) \o SubSeq(l, at + 1, Len(l))

(***************************************************************************)
(* FrameRelaySwitch: the node object and what its methods do.              *)
(*                                                                         *)
(* A method is an operator from the node (and its arguments) to the node   *)
(* it leaves and the events it produced, in order.  An event records the   *)
(* node as it was when the event happened.                                 *)
(***************************************************************************)
Emit(signal, args, n) ==
    [kind |-> "emit", what |-> signal, args |-> args, cb |-> None, at |-> n]

\* server.send_message(destination, params, callback)
SendMessage(destination, params, callback, n) ==
    [kind |-> "send", what |-> destination, args |-> params, cb |-> callback,
     at |-> n]

Raise(exception, n) ==
    [kind |-> "raise", what |-> exception, args |-> <<>>, cb |-> None,
     at |-> n]

\* print(value): a line on standard output
Stdout(value, n) ==
    [kind |-> "print", what |-> "stdout", args |-> value, cb |-> None,
     at |-> n]

\* the caller enters a method of the node with these arguments
Invoke(method, args, n) ==
    [kind |-> "call", what |-> method, args |-> args, cb |-> None, at |-> n]

\* the method returns to its caller
Return(method, n) ==
    [kind |-> "return", what |-> method, args |-> <<>>, cb |-> None,
     at |-> n]

Outcome(n, events) == [node |-> n, events |-> events]

\* objects counts the Port objects constructed so far: the identity (id())
\* of a Port is its number in the order of construction
NewNode ==
    [frsw_id |-> None,
     ports |-> <<>>,
     settings |-> [name |-> "", mapping |-> <<>>],
     objects |-> 0]

name(n) == n.settings.name

\* setup giving the connection the callback of delete
setupRegistersDeleteCallback(n) ==
    Outcome(n, <<SendMessage("dynamips.frsw.create", None, "_deleteCallback",
                             n)>>)

setup(n) ==
    Outcome(n, <<SendMessage("dynamips.frsw.create", None, "setupCallback",
                             n)>>)

\* setupCallback emitting the name before it stores it
setupCallbackEmitsFirst(n, response, error) ==
    IF "id" \notin DOMAIN response
    THEN Outcome(n, <<Raise("KeyError", n)>>)
    ELSE LET n1 == [n EXCEPT !.frsw_id = response.id]
             n2 == [n1 EXCEPT !.settings.name = response.name]
         IN  Outcome(n2, <<Emit("newname_signal", <<name(n1)>>, n1)>>)

setupCallback(n, response, error) ==
    IF "id" \notin DOMAIN response
    THEN Outcome(n, <<Raise("KeyError", n)>>)
    ELSE LET n1 == [n EXCEPT !.frsw_id = response.id]
         IN  IF "name" \notin DOMAIN response
             THEN Outcome(n1, <<Raise("KeyError", n1)>>)
             ELSE LET n2 == [n1 EXCEPT !.settings.name = response.name]
                  IN  Outcome(n2, <<Emit("newname_signal", <<name(n2)>>, n2)>>)

\* delete sending the message before it emits the signal
deleteSendsFirst(n) ==
    Outcome(n, <<SendMessage("dynamips.frsw.delete", [id |-> n.frsw_id],
                             "_deleteCallback", n),
                 Emit("delete_links_signal", <<>>, n)>>)

delete(n) ==
    Outcome(n, <<Emit("delete_links_signal", <<>>, n),
                 SendMessage("dynamips.frsw.delete", [id |-> n.frsw_id],
                             "_deleteCallback", n)>>)

\* _deleteCallback without its test of the error flag
deleteCallbackIgnoresError(n, result, error) ==
    Outcome(n, <<Emit("delete_signal", <<>>, n)>>)

deleteCallback(n, result, error) ==
    IF error
    THEN Outcome(n, <<Emit("error_signal",
                           <<name(n), result.code, result.message>>, n)>>)
    ELSE Outcome(n, <<Emit("delete_signal", <<>>, n)>>)

\* Port.isFree()
isFree(port) == port.nio = None

\* SerialPort(port_name), then port.port = int(port_name); oid is the
\* identity of the new object
SerialPort(port_name, oid) ==
    [name |-> port_name, port |-> ToInt(port_name), nio |-> None,
     oid |-> oid]

\* lines 106-112: the port names the mapping refers to, first mention first
RECURSIVE PortsToCreate(_, _)
PortsToCreate(mapping, acc) ==
    IF mapping = <<>> THEN acc
    ELSE LET source_port == SplitHead(mapping[1][1])
             destination_port == SplitHead(mapping[1][2])
             acc1 == IF source_port \in SeqToSet(acc)
                     THEN acc ELSE Append(acc, source_port)
             acc2 == IF destination_port \in SeqToSet(acc1)
                     THEN acc1 ELSE Append(acc1, destination_port)
         IN  PortsToCreate(Tail(mapping), acc2)

\* lines 114-118: the loop over self._ports.copy().  todo is the part of
\* the copy not visited yet, kept the visited ports still in self._ports.
RECURSIVE SweepPorts(_, _, _)
SweepPorts(todo, kept, ports_to_create) ==
    IF todo = <<>>
    THEN [ports |-> kept, ports_to_create |-> ports_to_create, exc |-> None]
    ELSE IF isFree(todo[1])
         THEN SweepPorts(Tail(todo), kept, ports_to_create)
         ELSE IF todo[1].name \in SeqToSet(ports_to_create)
              THEN SweepPorts(Tail(todo), Append(kept, todo[1]),
                              ListRemove(ports_to_create, todo[1].name))
              ELSE [ports |-> kept \o todo,
                    ports_to_create |-> ports_to_create,
                    exc |-> "ValueError"]

\* update creating a port for every label of the mapping, whether or not a
\* port that carries a NIO has the label already
updateCreatesAll(n, new_settings) ==
    LET mapping == new_settings.mapping
        names == PortsToCreate(mapping, <<>>)
        swept == SweepPorts(n.ports, <<>>, names)
        created == [i \in 1..Len(names) |->
                        SerialPort(names[i], n.objects + i)]
    IN  IF swept.exc # None
        THEN LET n1 == [n EXCEPT !.ports = swept.ports]
             IN  Outcome(n1, <<Invoke("update", new_settings, n),
                               Raise(swept.exc, n1)>>)
        ELSE LET n1 == [n EXCEPT !.ports = swept.ports \o created,
                                 !.settings.mapping = mapping,
                                 !.objects = n.objects + Len(created)]
             IN  Outcome(n1, <<Invoke("update", new_settings, n),
                               Return("update", n1)>>)

\* update taking every port for a free one
updateSweepsAll(n, new_settings) ==
    LET mapping == new_settings.mapping
        names == PortsToCreate(mapping, <<>>)
        created == [i \in 1..Len(names) |->
                        SerialPort(names[i], n.objects + i)]
        n1 == [n EXCEPT !.ports = created,
                        !.settings.mapping = mapping,
                        !.objects = n.objects + Len(created)]
    IN  Outcome(n1, <<Invoke("update", new_settings, n),
                      Return("update", n1)>>)

update(n, new_settings) ==
    LET mapping == new_settings.mapping
        swept == SweepPorts(n.ports, <<>>, PortsToCreate(mapping, <<>>))
        created == [i \in 1..Len(swept.ports_to_create) |->
                        SerialPort(swept.ports_to_create[i], n.objects + i)]
    IN  IF swept.exc # None
        THEN LET n1 == [n EXCEPT !.ports = swept.ports]
             IN  Outcome(n1, <<Invoke("update", new_settings, n),
                               Raise(swept.exc, n1)>>)
        ELSE LET n1 == [n EXCEPT !.ports = swept.ports \o created,
                                 !.settings.mapping = mapping,
                                 !.objects = n.objects + Len(created)]
             IN  Outcome(n1, <<Invoke("update", new_settings, n),
                               Return("update", n1)>>)

allocateUDPPort(n) ==
    Outcome(n, <<SendMessage("dynamips.frsw.allocate_udp_port",
                             [id |-> n.frsw_id],
                             "_allocateUDPPortCallback", n)>>)

\* self.id is the identity Node.__init__ gives the object
allocateUDPPortCallback(n, result, error) ==
    IF error
    THEN Outcome(n, <<Emit("error_signal",
                           <<name(n), result.code, result.message>>, n)>>)
    ELSE Outcome(n, <<Emit("allocate_udp_nio_signal",
                           <<"self.id", result.lport, result.lhost>>, n)>>)

\* lines 174-181: the entries of the node's mapping that touch the port
RECURSIVE PortMapping(_, _, _)
PortMapping(mapping, port_name, acc) ==
    IF mapping = <<>> THEN acc
    ELSE LET source == mapping[1][1]
             destination == mapping[1][2]
             acc1 == IF port_name = SplitHead(source)
                     THEN DictSet(acc, source, destination) ELSE acc
             acc2 == IF port_name = SplitHead(destination)
                     THEN DictSet(acc1, destination, source) ELSE acc1
         IN  PortMapping(Tail(mapping), port_name, acc2)

\* the NIO object a reference designates
NIO(nio) ==
    IF nio = "nio_udp"
    THEN [kind |-> "NIO_UDP", lport |-> 10001, rhost |-> "127.0.0.1",
          rport |-> 10002]
    ELSE [kind |-> "NIO_GenericEthernet", ethernet_device |-> "eth0"]

\* addNIO sending the node's whole mapping
addNIOWholeMapping(n, port, nio) ==
    IF NIO(nio).kind # "NIO_UDP"
    THEN Outcome(n, <<Invoke("addNIO", [port |-> port, nio |-> nio], n),
                      Raise("UnboundLocalError", n)>>)
    ELSE Outcome(n, <<Invoke("addNIO", [port |-> port, nio |-> nio], n),
                      SendMessage("dynamips.frsw.add_nio",
                          [id |-> n.frsw_id, nio |-> "NIO_UDP",
                           port |-> port.port, lport |-> NIO(nio).lport,
                           rhost |-> NIO(nio).rhost,
                           rport |-> NIO(nio).rport,
                           mapping |-> n.settings.mapping],
                          "_addNIOCallback", n)>>)

addNIO(n, port, nio) ==
    IF NIO(nio).kind # "NIO_UDP"
    THEN Outcome(n, <<Invoke("addNIO", [port |-> port, nio |-> nio], n),
                      Raise("UnboundLocalError", n)>>)
    ELSE Outcome(n, <<Invoke("addNIO", [port |-> port, nio |-> nio], n),
                      SendMessage("dynamips.frsw.add_nio",
                          [id |-> n.frsw_id, nio |-> "NIO_UDP",
                           port |-> port.port, lport |-> NIO(nio).lport,
                           rhost |-> NIO(nio).rhost,
                           rport |-> NIO(nio).rport,
                           mapping |-> PortMapping(n.settings.mapping,
                                                   port.name, <<>>)],
                          "_addNIOCallback", n)>>)

addNIOCallback(n, result, error) ==
    IF error
    THEN Outcome(n, <<Emit("error_signal",
                           <<name(n), result.code, result.message>>, n)>>)
    ELSE Outcome(n, <<Emit("nio_signal", <<"self.id">>, n)>>)

\* deleteNIO sending the message before it clears the port
deleteNIOSendsFirst(n, port) ==
    LET params == [id |-> n.frsw_id, port |-> n.ports[port].port]
        n1 == [n EXCEPT !.ports[port].nio = None]
    IN  Outcome(n1, <<Invoke("deleteNIO", n.ports[port], n),
                      SendMessage("dynamips.frsw.delete_nio", params,
                                  "deleteNIOCallback", n)>>)

\* port is the position in self._ports of the Port object passed
deleteNIO(n, port) ==
    LET params == [id |-> n.frsw_id, port |-> n.ports[port].port]
        n1 == [n EXCEPT !.ports[port].nio = None]
    IN  Outcome(n1, <<Invoke("deleteNIO", n.ports[port], n),
                      SendMessage("dynamips.frsw.delete_nio", params,
                                  "deleteNIOCallback", n1)>>)

deleteNIOCallback(n, result, error) ==
    Outcome(n, <<Stdout("NIO deleted!", n), Stdout(result, n)>>)

\* Port.setNIO(nio), called by the link code on a port of the node
setNIO(n, port, nio) == [n EXCEPT !.ports[port].nio = nio]

(***************************************************************************)
(* The server's replies (the wire contract): what a callback may be given. *)
(***************************************************************************)
Ids == {"frsw1", "frsw2"}
\* the server names a switch after the id it gives it
CreateReplies ==
    {[id |-> "frsw1", name |-> "FRSW1"], [id |-> "frsw2", name |-> "FRSW2"]}
ErrorReplies == [code : {-32600, -32602}, message : {"server error"}]
AckReplies == {<<>>}
AllocateReplies == [lhost : {"127.0.0.1"}, lport : {10001}]

(***************************************************************************)
(* The values the callers pass.                                            *)
(***************************************************************************)
\* "1:101", "2:202", "3:303", "1:102": port and DLCI of an endpoint
E1 == <<"1", ":", "1", "0", "1">>
E2 == <<"2", ":", "2", "0", "2">>
E3 == <<"3", ":", "3", "0", "3">>
E4 == <<"1", ":", "1", "0", "2">>
\* the mappings passed: each endpoint is an end of one virtual circuit
NewSettings ==
    {[mapping |-> m] :
        m \in {<<>>, << <<E1, E2>> >>, << <<E1, E3>> >>,
               << <<E1, E2>>, <<E3, E4>> >>}}
\* the NIO objects, by reference
Nios == {"nio_udp", "nio_ethernet"}

(***************************************************************************)
(* One node and its server connection.                                     *)
(***************************************************************************)
\* the caller runs a method of the node
Call(outcome) ==
    /\ node' = outcome.node
    /\ log' = log \o outcome.events
    /\ pending' = pending \cup
                    {Len(log) + i : i \in {j \in 1..Len(outcome.events) :
                                            outcome.events[j].kind = "send"}}
    /\ budget' = budget - 1

\* the transport hands a reply to the callback of message i
Delivered(i, response, error, outcome) ==
    [kind |-> "reply", what |-> log[i].what,
     args |-> [response |-> response, error |-> error,
               events |-> Len(outcome.events), after |-> outcome.node],
     cb |-> log[i].cb, at |-> node]

\* the transport runs the callback registered with message i, once
Reply(i, response, error, outcome) ==
    /\ node' = outcome.node
    /\ log' = Append(log, Delivered(i, response, error, outcome))
                 \o outcome.events
    /\ pending' = pending \ {i}
    /\ UNCHANGED budget

Awaiting(callback) == {i \in pending : log[i].cb = callback}

Setup ==
    /\ budget > 0
    /\ Call(setup(node))
    /\ UNCHANGED <<moduleVars, pairVars, catalogVars>>

SetupReply ==
    /\ \E i \in Awaiting("setupCallback") :
          \/ \E response \in CreateReplies :
                Reply(i, response, FALSE,
                      setupCallback(node, response, FALSE))
          \/ \E response \in ErrorReplies :
                Reply(i, response, TRUE,
                      setupCallback(node, response, TRUE))
    /\ UNCHANGED <<moduleVars, pairVars, catalogVars>>

Delete ==
    /\ budget > 0
    /\ Call(delete(node))
    /\ UNCHANGED <<moduleVars, pairVars, catalogVars>>

DeleteReply ==
    /\ \E i \in Awaiting("_deleteCallback") :
          \/ \E result \in AckReplies :
                Reply(i, result, FALSE, deleteCallback(node, result, FALSE))
          \/ \E result \in ErrorReplies :
                Reply(i, result, TRUE, deleteCallback(node, result, TRUE))
    /\ UNCHANGED <<moduleVars, pairVars, catalogVars>>

Update ==
    /\ budget > 0
    /\ \E new_settings \in NewSettings : Call(update(node, new_settings))
    /\ UNCHANGED <<moduleVars, pairVars, catalogVars>>

AllocateUDPPort ==
    /\ budget > 0
    /\ Call(allocateUDPPort(node))
    /\ UNCHANGED <<moduleVars, pairVars, catalogVars>>

AllocateUDPPortReply ==
    /\ \E i \in Awaiting("_allocateUDPPortCallback") :
          \/ \E result \in AllocateReplies :
                Reply(i, result, FALSE,
                      allocateUDPPortCallback(node, result, FALSE))
          \/ \E result \in ErrorReplies :
                Reply(i, result, TRUE,
                      allocateUDPPortCallback(node, result, TRUE))
    /\ UNCHANGED <<moduleVars, pairVars, catalogVars>>

AddNIO ==
    /\ budget > 0
    /\ \E port \in 1..Len(node.ports), nio \in Nios :
          Call(addNIO(node, node.ports[port], nio))
    /\ UNCHANGED <<moduleVars, pairVars, catalogVars>>

AddNIOReply ==
    /\ \E i \in Awaiting("_addNIOCallback") :
          \/ \E result \in AckReplies :
                Reply(i, result, FALSE, addNIOCallback(node, result, FALSE))
          \/ \E result \in ErrorReplies :
                Reply(i, result, TRUE, addNIOCallback(node, result, TRUE))
    /\ UNCHANGED <<moduleVars, pairVars, catalogVars>>

SetNIO ==
    /\ budget > 0
    /\ \E port \in 1..Len(node.ports), nio \in Nios :
          /\ isFree(node.ports[port])
          /\ Call(Outcome(setNIO(node, port, nio), <<>>))
    /\ UNCHANGED <<moduleVars, pairVars, catalogVars>>

DeleteNIO ==
    /\ budget > 0
    /\ \E port \in 1..Len(node.ports) : Call(deleteNIO(node, port))
    /\ UNCHANGED <<moduleVars, pairVars, catalogVars>>

DeleteNIOReply ==
    /\ \E i \in Awaiting("deleteNIOCallback") :
          \/ \E result \in AckReplies :
                Reply(i, result, FALSE, deleteNIOCallback(node, result, FALSE))
          \/ \E result \in ErrorReplies :
                Reply(i, result, TRUE, deleteNIOCallback(node, result, TRUE))
    /\ UNCHANGED <<moduleVars, pairVars, catalogVars>>

NodeInit ==
    /\ node = NewNode
    /\ log = <<>>
    /\ pending = {}

(***************************************************************************)
(* Two nodes on one server connection.                                     *)
(*                                                                         *)
(* A callback given to send_message is a bound method: the object it was   *)
(* taken from and the method's name.  The connection keeps it with the     *)
(* message and calls it with the reply to that message.                    *)
(***************************************************************************)
Twins == {"a", "b"}

\* self.<method> of the node t
BoundMethod(t, method) == [self |-> t, method |-> method]

\* calling the method of that name on the node n
RunCallback(method, n, response, error) ==
    CASE method = "setupCallback" -> setupCallback(n, response, error)
      [] method = "_deleteCallback" -> deleteCallback(n, response, error)

\* the messages among the events of a method run on the node t
Sent(t, events) ==
    LET sends == SelectSeq(events, LAMBDA e : e.kind = "send")
    IN  [i \in 1..Len(sends) |->
            [sender |-> t, what |-> sends[i].what, args |-> sends[i].args,
             callback |-> BoundMethod(t, sends[i].cb)]]

\* the messages of the connection no reply was delivered for
Outstanding ==
    {k \in 1..Len(wire) :
        \A d \in 1..Len(deliveries) : deliveries[d].request # k}

\* the create replies the server has not given yet: it creates a new
\* switch, with its own id, for every create message it accepts
FreshCreateReplies ==
    CreateReplies \
        {deliveries[d].response :
            d \in {x \in 1..Len(deliveries) : ~deliveries[x].error}}

\* the connection calls the callback kept with message k
Deliver(k, response, error) ==
    LET callback == wire[k].callback
        outcome == RunCallback(callback.method, twins[callback.self],
                               response, error)
    IN  /\ twins' = [twins EXCEPT ![callback.self] = outcome.node]
        /\ deliveries' = Append(deliveries,
                                [request |-> k, response |-> response,
                                 error |-> error, ran |-> callback])

TwinSetup ==
    /\ budget > 0
    /\ \E t \in Twins :
          LET outcome == setup(twins[t])
          IN  /\ twins' = [twins EXCEPT ![t] = outcome.node]
              /\ wire' = wire \o Sent(t, outcome.events)
    /\ budget' = budget - 1
    /\ UNCHANGED <<node, log, pending, deliveries>>
    /\ UNCHANGED <<moduleVars, catalogVars>>

TwinSetupReply ==
    /\ \E k \in Outstanding :
          /\ wire[k].what = "dynamips.frsw.create"
          /\ \/ \E response \in FreshCreateReplies :
                    Deliver(k, response, FALSE)
             \/ \E response \in ErrorReplies : Deliver(k, response, TRUE)
    /\ UNCHANGED <<nodeVars, wire>>
    /\ UNCHANGED <<moduleVars, catalogVars>>

\* no second node in the runs of one node or of the module
PairIdle ==
    /\ twins = [t \in Twins |-> NewNode]
    /\ wire = <<>>
    /\ deliveries = <<>>

(***************************************************************************)
(* Dynamips: the module's settings, its servers and the node factory.      *)
(*                                                                         *)
(* The settings dicts are functions from setting names to values.  Three   *)
(* of the thirteen settings of settings.py, one of each type, stand for    *)
(* all of them.                                                            *)
(***************************************************************************)
DYNAMIPS_SETTINGS ==
    [path |-> "dynamips", base_udp_port |-> 10001, ghost_ios_support |-> TRUE]

SettingNames == DOMAIN DYNAMIPS_SETTINGS

\* the complete settings dicts there are
SettingsValues ==
    [path : {"dynamips", "/opt/dynamips"}, base_udp_port : {10001, 20001},
     ghost_ios_support : BOOLEAN]

Restrict(d, keys) == [k \in keys |-> d[k]]

\* the dicts over some of the settings: what a caller passes to
\* setSettings, and what the settings store may hold when the module starts
SettingsDicts ==
    {Restrict(d, keys) : d \in SettingsValues, keys \in SUBSET SettingNames}

Servers == {"local", "remote"}

\* settings.value(name, default): the stored value, the default without one
StoredValue(st, setting, default) ==
    IF setting \in DOMAIN st THEN st[setting] ELSE default

loadSettings(st) ==
    [setting \in SettingNames |->
        StoredValue(st, setting, DYNAMIPS_SETTINGS[setting])]

\* settings.setValue(name, value) for every item of self._settings
saveSettings(st, module_settings) ==
    [setting \in DOMAIN st \cup DOMAIN module_settings |->
        IF setting \in DOMAIN module_settings
        THEN module_settings[setting] ELSE st[setting]]

\* setSettings sending the settings it was given, changed or not
ChangedSettingsAll(module_settings, new_settings) == new_settings

\* lines 151-154: the items of the new settings that differ
ChangedSettings(module_settings, new_settings) ==
    Restrict(new_settings,
             {setting \in DOMAIN new_settings :
                 module_settings[setting] # new_settings[setting]})

\* dict.update
DictUpdate(d, other) ==
    [k \in DOMAIN d \cup DOMAIN other |->
        IF k \in DOMAIN other THEN other[k] ELSE d[k]]

\* server.send_notification(destination, params)
Notification(server, destination, params) ==
    [server |-> server, destination |-> destination, params |-> params]

\* setSettings notifying the first server of the list and no other
SettingsNotificationsToFirst(module_servers, params) ==
    IF DOMAIN params # {} /\ module_servers # <<>>
    THEN <<Notification(module_servers[1], "dynamips.settings", params)>>
    ELSE <<>>

\* lines 156-158
SettingsNotifications(module_servers, params) ==
    IF DOMAIN params # {}
    THEN [i \in 1..Len(module_servers) |->
            Notification(module_servers[i], "dynamips.settings", params)]
    ELSE <<>>

\* self._servers.append(server)
addServerList(module_servers, server) == Append(module_servers, server)

\* self._servers.remove(server), for a server that is in the list
removeServerList(module_servers, server) == ListRemove(module_servers, server)

\* what a server that held the settings "held" holds after the
\* notifications of one call: the params of each settings notification sent
\* to it, merged key by key in the order sent
RECURSIVE Merged(_, _, _)
Merged(held, server, notifications) ==
    IF notifications = <<>> THEN held
    ELSE LET first == Head(notifications)
         IN  Merged(IF /\ first.server = server
                       /\ first.destination = "dynamips.settings"
                    THEN DictUpdate(held, first.params) ELSE held,
                    server, Tail(notifications))

Called(op, args, result) ==
    [op |-> op, args |-> args, result |-> result,
     old_settings |-> settings, old_servers |-> servers]

SetSettings ==
    \E new_settings \in SettingsDicts :
        LET params == ChangedSettings(settings, new_settings)
        IN  /\ notified' = SettingsNotifications(servers, params)
            /\ settings' = DictUpdate(settings, new_settings)
            /\ store' = saveSettings(store, settings')
            /\ call' = Called("setSettings", new_settings, None)
            /\ received' = [server \in Servers |->
                                Merged(received[server], server, notified')]
            /\ UNCHANGED <<servers, connected, removed>>
            /\ UNCHANGED <<nodeVars, pairVars, catalogVars>>

\* addServer called from outside the module, for a server not yet listed
AddServer ==
    \E server \in Servers \ SeqToSet(servers) :
        /\ Len(servers) < MaxServers
        /\ servers' = addServerList(servers, server)
        /\ notified' = <<Notification(server, "dynamips.settings", settings)>>
        /\ removed' = removed \ {server}
        /\ received' =
               [received EXCEPT ![server] = Merged(<<>>, server, notified')]
        /\ call' = Called("addServer", server, None)
        /\ UNCHANGED <<settings, store, connected>>
        /\ UNCHANGED <<nodeVars, pairVars, catalogVars>>

\* the server is in the list: list.remove finds it
RemoveServer ==
    \E server \in SeqToSet(servers) :
        /\ servers' = removeServerList(servers, server)
        /\ removed' = removed \cup {server}
        /\ UNCHANGED received
        /\ notified' = <<>>
        /\ call' = Called("removeServer", server, None)
        /\ UNCHANGED <<settings, store, connected>>
        /\ UNCHANGED <<nodeVars, pairVars, catalogVars>>

\* the server is not in the list: list.remove raises ValueError
RemoveServerAbsent ==
    \E server \in Servers \ SeqToSet(servers) :
        /\ notified' = <<>>
        /\ call' = Called("removeServer", server, "ValueError")
        /\ UNCHANGED <<settings, store, servers, connected, removed, received>>
        /\ UNCHANGED <<nodeVars, pairVars, catalogVars>>

\* createNode with the local server connected, or connecting at once:
\* lines 176-177
CreateNode ==
    /\ Len(servers) < MaxServers
    /\ connected' = TRUE
    /\ servers' = addServerList(servers, "local")
    /\ notified' = <<Notification("local", "dynamips.settings", settings)>>
    /\ removed' = removed \ {"local"}
    /\ received' =
           [received EXCEPT !["local"] = Merged(<<>>, "local", notified')]
    /\ call' = Called("createNode", "FrameRelaySwitch", "node")
    /\ UNCHANGED <<settings, store>>
    /\ UNCHANGED <<nodeVars, pairVars, catalogVars>>

\* createNode when server.connect() raises socket.error: lines 171-174
CreateNodeUnreachable ==
    /\ ~connected
    /\ notified' = <<>>
    /\ call' = Called("createNode", "FrameRelaySwitch", None)
    /\ UNCHANGED <<settings, store, servers, connected, removed, received>>
    /\ UNCHANGED <<nodeVars, pairVars, catalogVars>>

(***************************************************************************)
(* The IOS image catalog.                                                  *)
(*                                                                         *)
(* The catalog is a dict from "<server>:<image>" to a record of the        *)
(* image; the field "startup-config" is written startup_config here.  The  *)
(* QSettings group "IOS_images" holds the array "ios_image": its size and  *)
(* its items, each the values set under one array index.                   *)
(***************************************************************************)
\* "{server}:{image}".format(server=server, image=image)
ImageKey(server, image) == <<server, ":", image>>

\* the image records the preferences page may hold: two images, each on
\* two servers
ImageRecords ==
    {[path |-> <<"/ios/", server, "/", image>>, image |-> image,
      startup_config |-> IF image = "c3725.image" THEN "" ELSE "startup.cfg",
      platform |-> IF image = "c3725.image" THEN "c3725" ELSE "c7200",
      chassis |-> "", idlepc |-> "0x60c09aa0",
      ram |-> IF server = "local" THEN 128 ELSE 256,
      server |-> server] :
        image \in {"c3725.image", "c7200.image"},
        server \in {"local", "remote"}}

\* the catalogs of at most k entries: dicts keyed by their records
RECURSIVE Catalogs(_)
Catalogs(k) ==
    IF k = 0 THEN {<<>>}
    ELSE Catalogs(k - 1) \cup
         {Append(catalog, <<ImageKey(r.server, r.image), r>>) :
             catalog \in {c \in Catalogs(k - 1) : Len(c) = k - 1},
             r \in ImageRecords}

\* dict.values()
DictValues(d) == [i \in 1..Len(d) |-> d[i][2]]

\* settings.remove("") in the group: no key is left
ClearedGroup == [size |-> 0, items |-> <<>>]

\* lines 113-120: beginWriteArray(prefix, size), then setValue(name,
\* value) for every item of every record under its array index
WriteArray(group, records) ==
    [size |-> Len(records),
     items |-> [i \in 1..(IF Len(group.items) > Len(records)
                          THEN Len(group.items) ELSE Len(records)) |->
                   IF i > Len(records) THEN group.items[i]
                   ELSE IF i > Len(group.items) THEN records[i]
                   ELSE DictUpdate(group.items[i], records[i])]]

\* _saveIOSImages without settings.remove("")
saveIOSImagesKeepsOld(group, images) ==
    WriteArray(group, DictValues(images))

saveIOSImages(group, images) ==
    WriteArray(ClearedGroup, DictValues(images))

\* lines 83-100: the record read under array index i
LoadedImage(group, i) ==
    LET item == IF i <= Len(group.items) THEN group.items[i] ELSE <<>>
    IN  [path |-> StoredValue(item, "path", ""),
         image |-> StoredValue(item, "image", ""),
         startup_config |-> StoredValue(item, "image", ""),
         platform |-> StoredValue(item, "platform", ""),
         chassis |-> StoredValue(item, "chassis", ""),
         idlepc |-> StoredValue(item, "idlepc", ""),
         ram |-> StoredValue(item, "ram", 128),
         server |-> StoredValue(item, "server", "local")]

\* lines 80-100: the dict after the first k items were read
RECURSIVE LoadedImages(_, _)
LoadedImages(group, k) ==
    IF k = 0 THEN <<>>
    ELSE LET r == LoadedImage(group, k)
         IN  DictSet(LoadedImages(group, k - 1),
                     ImageKey(r.server, r.image), r)

loadIOSImages(group) == LoadedImages(group, group.size)

\* the first record of the catalog for the platform, None without one
allocateIOSImage(images, platform) ==
    LET matching == {i \in 1..Len(images) :
                        images[i][2].platform = platform}
    IN  IF matching = {} THEN None ELSE images[Min(matching)][2]

\* the nodes handed to setupNode: a switch and routers of two platforms
SetupNodes ==
    {[router |-> FALSE, platform |-> None],
     [router |-> TRUE, platform |-> "c3725"],
     [router |-> TRUE, platform |-> "c7200"]}

\* the image path written in line 191
SetupImage ==
    "/home/grossmj/Documents/IOS images/c3725-adventerprisek9-mz.124-15.T14.image"

\* the arguments setupNode calls node.setup with
setupNode(images, n) ==
    IF n.router
    THEN LET ios_image == allocateIOSImage(images, n.platform)
         IN  <<SetupImage, 128>>
    ELSE <<>>

CalledCatalog(op, args, result) ==
    [op |-> op, args |-> args, result |-> result,
     old_settings |-> settings, old_servers |-> servers,
     old_size |-> image_store.size]

SetIOSImages ==
    /\ \E new_ios_images \in Catalogs(MaxImages) :
          /\ ios_images' = new_ios_images
          /\ image_store' = saveIOSImages(image_store, ios_images')
          /\ call' = CalledCatalog("setIOSImages", new_ios_images, None)
    /\ UNCHANGED <<settings, store, servers, connected, notified, removed,
                   received>>
    /\ UNCHANGED <<nodeVars, pairVars>>

\* setupNode for a router: Router.setup is called with the arguments
SetupRouter ==
    /\ \E n \in {x \in SetupNodes : x.router} :
          call' = CalledCatalog("setupNode", n, setupNode(ios_images, n))
    /\ UNCHANGED <<settings, store, servers, connected, notified, removed,
                   received>>
    /\ UNCHANGED <<nodeVars, pairVars, catalogVars>>

\* setupNode for the switch: FrameRelaySwitch.setup runs
SetupSwitch ==
    /\ budget > 0
    /\ \E n \in {x \in SetupNodes : ~x.router} :
          call' = CalledCatalog("setupNode", n, setupNode(ios_images, n))
    /\ Call(setup(node))
    /\ UNCHANGED <<settings, store, servers, connected, notified, removed,
                   received>>
    /\ UNCHANGED <<pairVars, catalogVars>>

\* the application starts again: Dynamips.__init__ loads the catalog
Restart ==
    /\ ios_images' = loadIOSImages(image_store)
    /\ call' = CalledCatalog("__init__", None, None)
    /\ UNCHANGED <<settings, store, servers, connected, notified, removed,
                   received>>
    /\ UNCHANGED <<nodeVars, pairVars, image_store>>

\* Dynamips.__init__ over an empty group "IOS_images"
CatalogInit ==
    /\ image_store = ClearedGroup
    /\ ios_images = loadIOSImages(image_store)

\* Dynamips.__init__ over whatever the settings store holds
ModuleInit ==
    /\ store \in SettingsDicts
    /\ settings = loadSettings(store)
    /\ servers = <<>>
    /\ connected = FALSE
    /\ call = [op |-> "__init__", args |-> None, result |-> None,
               old_settings |-> <<>>, old_servers |-> <<>>]
    /\ notified = <<>>
    /\ removed = {}
    /\ received = [server \in Servers |-> <<>>]

\* the module, constructed over an empty settings store and left alone
ModuleIdle ==
    /\ store = <<>>
    /\ settings = loadSettings(store)
    /\ servers = <<>>
    /\ connected = FALSE
    /\ call = [op |-> "__init__", args |-> None, result |-> None,
               old_settings |-> <<>>, old_servers |-> <<>>]
    /\ notified = <<>>
    /\ removed = {}
    /\ received = [server \in Servers |-> <<>>]

\* no node in the runs of the module
NodeIdle == NodeInit /\ budget = 0

\* the module's image catalog, empty and left alone
CatalogIdle == CatalogInit

InitModule == ModuleInit /\ NodeIdle /\ PairIdle /\ CatalogIdle

NextModule ==
    \/ SetSettings
    \/ AddServer
    \/ RemoveServer
    \/ RemoveServerAbsent
    \/ CreateNode
    \/ CreateNodeUnreachable

SpecModule == InitModule /\ [][NextModule]_vars

\* The life cycle of one node: create, allocate, delete.
InitNode ==
    NodeInit /\ budget = MaxCalls /\ ModuleIdle /\ PairIdle /\ CatalogIdle

NextNode ==
    \/ Setup
    \/ SetupReply
    \/ Delete
    \/ DeleteReply
    \/ AllocateUDPPort
    \/ AllocateUDPPortReply

SpecNode == InitNode /\ [][NextNode]_vars

\* One node, its ports and their NIOs.
InitPorts ==
    NodeInit /\ budget = MaxPortCalls /\ ModuleIdle /\ PairIdle
             /\ CatalogIdle

NextPorts ==
    \/ Setup
    \/ SetupReply
    \/ Update
    \/ SetNIO
    \/ AddNIO
    \/ AddNIOReply
    \/ DeleteNIO
    \/ DeleteNIOReply

SpecPorts == InitPorts /\ [][NextPorts]_vars

\* Two nodes created on the local server, each set up by its caller.
InitPair ==
    PairIdle /\ NodeInit /\ budget = MaxTwinCalls /\ ModuleIdle
             /\ CatalogIdle

NextPair ==
    \/ TwinSetup
    \/ TwinSetupReply

SpecPair == InitPair /\ [][NextPair]_vars

\* The module's image catalog and the nodes it sets up.
InitCatalog ==
    CatalogInit /\ ModuleIdle /\ NodeInit /\ budget = MaxCalls /\ PairIdle

NextCatalog ==
    \/ SetIOSImages
    \/ SetupRouter
    \/ SetupSwitch
    \/ Restart

SpecCatalog == InitCatalog /\ [][NextCatalog]_vars

(***************************************************************************)
(* Reading the log.                                                        *)
(***************************************************************************)
IsSend(e, destination) == e.kind = "send" /\ e.what = destination

IsEmit(e, signal) == e.kind = "emit" /\ e.what = signal

\* e is the reply, with the given error flag, handed to the callback
IsReply(e, callback, error) ==
    e.kind = "reply" /\ e.cb = callback /\ e.args.error = error

\* the events of the log that satisfy Is(_)
Events(Is(_)) == {i \in 1..Len(log) : Is(log[i])}

CreateSent(e) == IsSend(e, "dynamips.frsw.create")
CreateSucceeded(e) == IsReply(e, "setupCallback", FALSE)
CreateFailed(e) == IsReply(e, "setupCallback", TRUE)
DeleteSucceeded(e) == IsReply(e, "_deleteCallback", FALSE)
DeleteFailed(e) == IsReply(e, "_deleteCallback", TRUE)
NameAssigned(e) == IsEmit(e, "newname_signal")
Deleted(e) == IsEmit(e, "delete_signal")
DeleteSent(e) == IsSend(e, "dynamips.frsw.delete")
LinksDeleted(e) == IsEmit(e, "delete_links_signal")
DeleteNIOCalled(e) == e.kind = "call" /\ e.what = "deleteNIO"
DeleteNIOSent(e) == IsSend(e, "dynamips.frsw.delete_nio")
DeleteNIOReplied(e) == e.kind = "reply" /\ e.cb = "deleteNIOCallback"
AddNIOCalled(e) == e.kind = "call" /\ e.what = "addNIO"
AddNIOSent(e) == IsSend(e, "dynamips.frsw.add_nio")
UpdateCalled(e) == e.kind = "call" /\ e.what = "update"

\* the node as it was at each event of the log, and as it is now
Snapshot(i) == IF i <= Len(log) THEN log[i].at ELSE node

\* the Port objects of a node that carry a NIO, and the identities of all
BoundPorts(n) == {port \in SeqToSet(n.ports) : ~isFree(port)}
Oids(n) == {port.oid : port \in SeqToSet(n.ports)}

\* the update call at position i of the log returned
Completed(i) == log[i + 1].kind = "return"

\* the port labels a mapping refers to, as source or as destination
Referenced(mapping) ==
    {SplitHead(mapping[k][1]) : k \in 1..Len(mapping)}
        \cup {SplitHead(mapping[k][2]) : k \in 1..Len(mapping)}

Labels(n) == {port.name : port \in SeqToSet(n.ports)}

\* the reply at position i made its callback emit exactly the error
\* notification (name, code, message) of that reply, the node unchanged
ErrorNotified(i) ==
    /\ log[i].args.events = 1
    /\ i < Len(log)
    /\ IsEmit(log[i + 1], "error_signal")
    /\ log[i + 1].args = <<name(log[i].at), log[i].args.response.code,
                           log[i].args.response.message>>
    /\ log[i + 1].at = log[i].at

(***************************************************************************)
(* C1. A node is provisioned at most once: no create message is sent by a  *)
(* node that has its remote id, and no create reply overwrites a remote id *)
(* already set.                                                            *)
(***************************************************************************)
C1_ProvisionedOnce ==
    /\ \A i \in Events(CreateSent) : log[i].at.frsw_id = None
    /\ \A i \in Events(CreateSucceeded) : log[i].at.frsw_id = None

(***************************************************************************)
(* C2. The remote id is None unless a successful create reply was          *)
(* delivered; that reply sets the remote id and the name setting to the    *)
(* reply's, and the name notification is emitted after both are set (it    *)
(* is the event that follows the reply, and at it both are already set).   *)
(***************************************************************************)
C2_RemoteIdFromCreateReply ==
    /\ node.frsw_id # None => Events(CreateSucceeded) # {}
    /\ \A i \in Events(CreateSucceeded) :
          /\ i < Len(log)
          /\ NameAssigned(log[i + 1])
          /\ log[i + 1].at.frsw_id = log[i].args.response.id
          /\ log[i + 1].at.settings.name = log[i].args.response.name
          /\ log[i + 1].args = <<log[i].args.response.name>>
    /\ \A j \in Events(NameAssigned) : j > 1 /\ CreateSucceeded(log[j - 1])
    /\ LET last == {i \in Events(CreateSucceeded) :
                       \A k \in Events(CreateSucceeded) : k <= i}
       IN  \A i \in last : /\ node.frsw_id = log[i].args.response.id
                           /\ name(node) = log[i].args.response.name

C2_Witness ==
    /\ node.frsw_id = "frsw2"
    /\ name(node) = "FRSW2"
    /\ Events(CreateFailed) # {}
    /\ Cardinality(Events(NameAssigned)) = 1

(***************************************************************************)
(* C3. A create reply with the error flag leaves the remote id and the     *)
(* name as they were, emits no name notification and emits an error        *)
(* notification.                                                           *)
(***************************************************************************)
C3_CreateFailureNotified ==
    \A i \in Events(CreateFailed) : ErrorNotified(i)

(***************************************************************************)
(* C4. An error reply to an allocate-UDP-port, add-NIO or delete-NIO       *)
(* request makes the callback emit exactly one error notification with     *)
(* the node's name and the reply's code and message, raise nothing, emit   *)
(* nothing else and leave the node as it was.                              *)
(***************************************************************************)
C4_ErrorReplyNotified ==
    \A i \in 1..Len(log) :
        (\/ IsReply(log[i], "_allocateUDPPortCallback", TRUE)
         \/ IsReply(log[i], "_addNIOCallback", TRUE)
         \/ IsReply(log[i], "deleteNIOCallback", TRUE))
        => ErrorNotified(i)

(***************************************************************************)
(* C5. Every delete, allocate-UDP-port, add-NIO and delete-NIO message     *)
(* sent carries a remote id that is not None.                              *)
(***************************************************************************)
C5_KeyedMessagesCarryId ==
    \A i \in 1..Len(log) :
        (\/ IsSend(log[i], "dynamips.frsw.delete")
         \/ IsSend(log[i], "dynamips.frsw.allocate_udp_port")
         \/ IsSend(log[i], "dynamips.frsw.add_nio")
         \/ IsSend(log[i], "dynamips.frsw.delete_nio"))
        => log[i].args.id # None

(***************************************************************************)
(* C6. The "deleted" notification is emitted only by a successful destroy  *)
(* reply, and by each of them; a destroy reply with the error flag emits   *)
(* the error notification with the reply's code and message and no         *)
(* "deleted" notification, and neither reply changes the node.             *)
(***************************************************************************)
C6_DeletedOnlyOnSuccess ==
    /\ \A j \in Events(Deleted) : j > 1 /\ DeleteSucceeded(log[j - 1])
    /\ \A i \in Events(DeleteSucceeded) :
          /\ log[i].args.events = 1
          /\ i < Len(log)
          /\ Deleted(log[i + 1])
          /\ log[i + 1].at = log[i].at
    /\ \A i \in Events(DeleteFailed) : ErrorNotified(i)

C6_Witness ==
    \E i \in Events(DeleteFailed), j \in Events(DeleteSucceeded) :
        /\ i < j
        /\ log[i].at.frsw_id # None
        /\ log[i].args.response.code = -32602
        /\ node.frsw_id = log[i].at.frsw_id

(***************************************************************************)
(* C7. Once a destroy reply has succeeded for a provisioned node, nothing  *)
(* changes the node, the node emits no notification and sends no message.  *)
(* The "deleted" notification itself is the event right after the reply.   *)
(***************************************************************************)
C7_DestroyedIsTerminal ==
    \A d \in Events(DeleteSucceeded) :
        log[d].at.frsw_id # None =>
            /\ node = log[d].at
            /\ \A j \in (d + 2)..Len(log) :
                  /\ log[j].kind \notin {"send", "emit"}
                  /\ log[j].at = log[d].at

C9_NoDuplicateServers ==
    \A i, j \in 1..Len(servers) : servers[i] = servers[j] => i = j

(***************************************************************************)
(* C10. A server that removeServer removed, and that was not added again,  *)
(* is not in the server list and gets no notification from setSettings.    *)
(***************************************************************************)
C10_RemovedServerGone ==
    /\ \A server \in removed : server \notin SeqToSet(servers)
    /\ call.op = "setSettings" =>
          \A i \in 1..Len(notified) : notified[i].server \notin removed

(***************************************************************************)
(* C11. A port that carries a NIO is never removed from the port list and  *)
(* never replaced by another object: every port bound before an update     *)
(* call is in the list after it, the same object with the same NIO,        *)
(* whether the call returns or raises; and from one moment of the node's   *)
(* history to the next, every bound port is still in the list.             *)
(***************************************************************************)
C11_BoundPortsKept ==
    /\ \A i \in Events(UpdateCalled) :
          \A port \in BoundPorts(log[i].at) :
              port \in SeqToSet(log[i + 1].at.ports)
    /\ \A i \in 1..Len(log) :
          \A port \in BoundPorts(Snapshot(i)) :
              port.oid \in Oids(Snapshot(i + 1))

C11_Witness ==
    \E i \in Events(UpdateCalled) :
        /\ Completed(i)
        /\ BoundPorts(log[i].at) # {}
        /\ Oids(log[i].at) \ Oids(log[i + 1].at) # {}
        /\ Oids(log[i + 1].at) \ Oids(log[i].at) # {}

(***************************************************************************)
(* C12. A createNode call whose connection attempt fails creates no node   *)
(* and ends with the transport error raised to its caller: no createNode   *)
(* call returns normally without a node.                                   *)
(***************************************************************************)
C12_ConnectionErrorSurfaced ==
    call.op = "createNode" /\ call.result # "node" =>
        /\ servers = call.old_servers
        /\ call.result = "socket.error"

(***************************************************************************)
(* C13. With create messages of two nodes outstanding on one connection,   *)
(* in whatever order the replies are delivered: every reply is handed to   *)
(* the setupCallback of the node that sent the message, at most once, and  *)
(* each node's remote id and name are those of the last successful reply   *)
(* to a message of its own (None and "" while there is none).              *)
(***************************************************************************)
C13_RepliesCorrelated ==
    /\ \A d \in 1..Len(deliveries) :
          LET k == deliveries[d].request
          IN  /\ deliveries[d].ran.method = "setupCallback"
              /\ deliveries[d].ran.self = wire[k].sender
              /\ \A e \in 1..Len(deliveries) :
                    deliveries[e].request = k => e = d
    /\ \A t \in Twins :
          LET own == {d \in 1..Len(deliveries) :
                        /\ ~deliveries[d].error
                        /\ deliveries[d].ran.self = t}
          IN  /\ own = {} =>
                    twins[t].frsw_id = None /\ name(twins[t]) = ""
              /\ \A d \in own :
                    (\A e \in own : e <= d) =>
                        /\ twins[t].frsw_id = deliveries[d].response.id
                        /\ name(twins[t]) = deliveries[d].response.name

\* a's message was sent first and answered last
C13_Witness ==
    /\ Len(wire) >= 2 /\ Len(deliveries) >= 2
    /\ wire[1].sender = "a" /\ wire[2].sender = "b"
    /\ deliveries[1].request = 2 /\ deliveries[2].request = 1
    /\ twins["b"].frsw_id = "frsw1" /\ twins["a"].frsw_id = "frsw2"

(***************************************************************************)
(* C14. Every delete call emits the notification to delete the node's      *)
(* links and then sends the destroy message: each destroy message in the   *)
(* history comes right after such a notification, each such notification   *)
(* is followed by a destroy message, the node is the same at both, and     *)
(* the message carries the remote id the node has at that moment.          *)
(***************************************************************************)
C14_LinksDeletedBeforeDestroy ==
    /\ \A i \in Events(DeleteSent) :
          /\ i > 1
          /\ LinksDeleted(log[i - 1])
          /\ log[i - 1].at = log[i].at
          /\ log[i].args = [id |-> log[i].at.frsw_id]
    /\ \A j \in Events(LinksDeleted) :
          j < Len(log) /\ DeleteSent(log[j + 1])

C14_Witness ==
    \E i \in Events(DeleteSent), j \in Events(DeleteSent) :
        /\ i < j
        /\ log[i].args.id = None
        /\ log[j].args.id = "frsw2"

(***************************************************************************)
(* C15. deleteNIO(port) clears the port and then sends the detach          *)
(* message: the message comes right after the call, carries the node's     *)
(* remote id and the port's number, and when it is sent the port is in     *)
(* the list without a NIO, everything else as it was at the call.  The     *)
(* reply to it, success or error, changes nothing of the node.             *)
(***************************************************************************)
C15_PortFreedBeforeDetach ==
    /\ \A i \in Events(DeleteNIOCalled) :
          LET port == log[i].args
              before == log[i].at
              sent == log[i + 1]
          IN  /\ DeleteNIOSent(sent)
              /\ sent.args = [id |-> before.frsw_id, port |-> port.port]
              /\ [port EXCEPT !.nio = None] \in SeqToSet(sent.at.ports)
              /\ Len(sent.at.ports) = Len(before.ports)
              /\ \A k \in 1..Len(before.ports) :
                    sent.at.ports[k] =
                        IF before.ports[k].oid = port.oid
                        THEN [port EXCEPT !.nio = None]
                        ELSE before.ports[k]
              /\ [sent.at EXCEPT !.ports = before.ports] = before
    /\ \A j \in Events(DeleteNIOSent) :
          j > 1 /\ DeleteNIOCalled(log[j - 1])
    /\ \A r \in Events(DeleteNIOReplied) : log[r].args.after = log[r].at

C15_Witness ==
    \E i \in Events(DeleteNIOCalled), r \in Events(DeleteNIOReplied) :
        /\ i < r
        /\ ~isFree(log[i].args)
        /\ log[r].args.error
        /\ Len(log[i].at.ports) = 2
        /\ \A port \in SeqToSet(node.ports) : isFree(port)

(***************************************************************************)
(* C16. After an update call with mapping M that returns: every label M    *)
(* refers to has a port; the ports gone from the list are exactly the      *)
(* ports that were free and whose label M does not refer to; the ports     *)
(* that are new in the list have labels M refers to that had no port       *)
(* before; and the list is the ports that stayed, in their order, with     *)
(* the new ones after them.                                                *)
(***************************************************************************)
C16_PortsReconciled ==
    \A i \in Events(UpdateCalled) :
        Completed(i) =>
            LET before == log[i].at
                after == log[i + 1].at
                referenced == Referenced(log[i].args.mapping)
                stayed == SelectSeq(before.ports,
                                    LAMBDA port : port.oid \in Oids(after))
            IN  /\ referenced \subseteq Labels(after)
                /\ Oids(before) \ Oids(after) =
                      {port.oid : port \in
                          {q \in SeqToSet(before.ports) :
                              isFree(q) /\ q.name \notin referenced}}
                /\ \A port \in SeqToSet(after.ports) :
                      port.oid \notin Oids(before) =>
                          /\ port.name \in referenced
                          /\ port.name \notin Labels(before)
                /\ SubSeq(after.ports, 1, Len(stayed)) = stayed

(***************************************************************************)
(* C17. An update call whose mapping does not refer to the label of a      *)
(* port that carries a NIO raises an error and leaves the node as it was:  *)
(* the same ports, free ones included, and the same stored mapping.        *)
(***************************************************************************)
C17_RejectedUpdateChangesNothing ==
    \A i \in Events(UpdateCalled) :
        (\E port \in BoundPorts(log[i].at) :
            port.name \notin Referenced(log[i].args.mapping))
        => /\ log[i + 1].kind = "raise"
           /\ log[i + 1].at = log[i].at

C19_SetupWithCatalogImage ==
    call.op = "setupNode" =>
        LET n == call.args
            matching == {i \in 1..Len(ios_images) :
                            ios_images[i][2].platform = n.platform}
        IN  call.result =
                IF n.router /\ matching # {}
                THEN <<ios_images[Min(matching)][2].path,
                       ios_images[Min(matching)][2].ram>>
                ELSE <<>>

(***************************************************************************)
(* C20. After setIOSImages the persisted array is the catalog's records,   *)
(* one per entry in the catalog's order, and holds nothing else, whatever  *)
(* it held before; saving the catalog once more leaves it as it is.        *)
(***************************************************************************)
C20_SaveReplacesArray ==
    call.op = "setIOSImages" =>
        /\ ios_images = call.args
        /\ image_store.size = Len(ios_images)
        /\ image_store.items = DictValues(ios_images)
        /\ saveIOSImages(image_store, ios_images) = image_store

\* a catalog of one record saved over a persisted array of two
C20_Witness ==
    /\ call.op = "setIOSImages"
    /\ call.old_size = 2
    /\ Len(ios_images) = 1
    /\ image_store.items = <<ios_images[1][2]>>

\* the catalog whose records, in order, are the first k items of a
\* persisted array: each under the key of its server and image, a later
\* record taking the place of an earlier one with the same key
RECURSIVE CatalogOf(_, _)
CatalogOf(items, k) ==
    IF k = 0 THEN <<>>
    ELSE DictSet(CatalogOf(items, k - 1),
                 ImageKey(items[k].server, items[k].image), items[k])

(***************************************************************************)
(* C21. The catalog a new Dynamips loads is the catalog that was saved:    *)
(* the records of the persisted array with every field as it was written,  *)
(* the startup-config among them, each under the key "<server>:<image>".   *)
(***************************************************************************)
C21_CatalogRoundTrips ==
    call.op = "__init__" =>
        ios_images = CatalogOf(image_store.items, image_store.size)

\* the servers addServer was called for in the last call: its argument, or
\* the local server when createNode called it
AddedServers ==
    IF call.op = "addServer" THEN {call.args}
    ELSE IF call.op = "createNode" /\ call.result # None THEN {"local"}
    ELSE {}

(***************************************************************************)
(* C22. Every server of the list is in step with the module's settings:    *)
(* addServer sends the server it adds one notification that carries all    *)
(* of the current settings, and at any time, for each server in the list,  *)
(* the settings notifications it was sent since it was last added, merged  *)
(* key by key, are the module's settings.                                  *)
(***************************************************************************)
C22_ServersSynchronized ==
    /\ \A server \in AddedServers :
          notified = <<Notification(server, "dynamips.settings", settings)>>
    /\ \A server \in SeqToSet(servers) : received[server] = settings

\* two servers, each added with other settings than the present ones and
\* brought up to them by notifications of some of the settings only
C22_Witness ==
    /\ call.op = "setSettings"
    /\ SeqToSet(servers) = Servers
    /\ Len(notified) >= 2
    /\ \A i \in 1..Len(notified) : DOMAIN notified[i].params # SettingNames
    /\ settings # call.old_settings
    /\ \A server \in Servers : received[server] = settings
    /\ C22_ServersSynchronized

\* the update calls that returned, by their place in the log
CompletedUpdates == {i \in Events(UpdateCalled) : Completed(i)}

\* the last update call that returned, by its place in the log
LastUpdate ==
    CHOOSE i \in CompletedUpdates : \A j \in CompletedUpdates : j <= i

\* the mapping of the last update call that returned: the empty mapping of
\* __init__ when there is none
LastMapping ==
    IF CompletedUpdates = {} THEN <<>> ELSE log[LastUpdate].args.mapping

(***************************************************************************)
(* C23. Whatever update, addNIO and deleteNIO calls and NIO attachments    *)
(* the node has had, update calls that raised included: no two ports of    *)
(* the port list have the same label, and the mapping the node stores is   *)
(* the mapping of the last update call that returned.                      *)
(***************************************************************************)
C23_LabelsUniqueMappingStored ==
    /\ \A i, j \in 1..Len(node.ports) :
          node.ports[i].name = node.ports[j].name => i = j
    /\ node.settings.mapping = LastMapping

\* two update calls returned, with different mappings, the second one
\* called when a port whose label it refers to carried a NIO
C23_Witness ==
    /\ Cardinality(CompletedUpdates) >= 2
    /\ log[Min(CompletedUpdates)].args.mapping # LastMapping
    /\ LastMapping # <<>>
    /\ \E port \in BoundPorts(log[LastUpdate].at) :
          port.name \in Referenced(LastMapping)
    /\ Len(node.ports) >= 2
    /\ C23_LabelsUniqueMappingStored

====
